---- MODULE Spec2Model ----
(***************************************************************************)
(* Model of process_results.py: a batch pipeline that reads a CSV of       *)
(* load-test samples, aggregates mean/min/max and writes a three-sheet     *)
(* workbook.                                                               *)
(*                                                                         *)
(* Conventions.                                                            *)
(*  - A Python value that may be None is a sequence of length 0 or 1:      *)
(*    <<>> is None, <<s>> is the string s.                                 *)
(*  - A float is a record [nan, v]: NaN, or the finite value v counted in  *)
(*    units of 1e-5.  Arithmetic rounds to nearest, ties to even, to a     *)
(*    significand of Precision bits (binary64 scaled down), the spacing    *)
(*    never finer than one unit.                                           *)
(*  - The input file is revealed as the reader iterates: csv_rows holds    *)
(*    the lines consumed so far.                                           *)
(***************************************************************************)
EXTENDS Integers, Sequences, FiniteSets, TLC

VARIABLES
    pc,           \* position of main()
    argv,         \* sys.argv
    output_file,  \* main's output_file after normalisation, <<>> before
    open_result,  \* what open(csv_file, 'r') did, "none" before the call
    header,       \* csv.DictReader.fieldnames, <<>> when not read
    csv_rows,     \* the data lines of the input file read so far
    data,         \* read_csv_data's list of samples
    stats,        \* calculate_statistics' result, <<>> before
    wb,           \* the Workbook built in memory, <<>> before
    disk,         \* the content of the destination path, <<>> when unwritten
    saves,        \* number of wb.save calls
    out,          \* what the process has printed, in order
    exit_code     \* <<>> while running, <<n>> once the process has exited

vars == <<pc, argv, output_file, open_result, header, csv_rows, data, stats, wb,
          disk, saves, out, exit_code>>

\* ---------------------------------------------------------------- bounds

\* Most lines (blank ones included) the reader is given before the file ends.
MaxRows == 3

\* Significand width of the scaled-down binary floating point.
Precision == 3

\* ------------------------------------------------------------- utilities

None == <<>>

Some(x) == <<x>>

Range(s) == {s[i] : i \in 1..Len(s)}

RECURSIVE Pow2(_)
Pow2(n) == IF n = 0 THEN 1 ELSE 2 * Pow2(n - 1)

\* ----------------------------------------------------------------- floats

NaN == [nan |-> TRUE, v |-> 0]

F(x) == [nan |-> FALSE, v |-> x]

\* a/b (a >= 0, b > 0) rounded to an integer, ties to even.
RoundHalfEven(a, b) ==
    LET q == a \div b
        r == a % b
    IN  IF 2 * r < b THEN q
        ELSE IF 2 * r > b THEN q + 1
        ELSE IF q % 2 = 0 THEN q ELSE q + 1

\* The spacing of the floats around a/b: the least power of two g with
\* a/b < 2^Precision * g.
RECURSIVE Spacing(_, _, _)
Spacing(a, b, g) ==
    IF a < Pow2(Precision) * g * b THEN g ELSE Spacing(a, b, 2 * g)

\* The float nearest to the rational num/den (den > 0).
RoundRat(num, den) ==
    LET a == IF num < 0 THEN -num ELSE num
        g == Spacing(a, den, 1)
        m == g * RoundHalfEven(a, den * g)
    IN  IF num < 0 THEN -m ELSE m

\* float + float
FAdd(x, y) == IF x.nan \/ y.nan THEN NaN ELSE F(RoundRat(x.v + y.v, 1))

\* float / int
FDiv(x, n) == IF x.nan THEN NaN ELSE F(RoundRat(x.v, n))

\* Python's x < y on floats: False whenever a NaN is involved.
FLt(x, y) == ~x.nan /\ ~y.nan /\ x.v < y.v

\* sum(xs): starts from the int 0 and adds left to right.
RECURSIVE SumFrom(_, _, _)
SumFrom(acc, xs, i) ==
    IF i > Len(xs) THEN acc ELSE SumFrom(FAdd(acc, xs[i]), xs, i + 1)

FSum(xs) == SumFrom(F(0), xs, 1)

\* min(xs): keeps the first item, replaced by a later one only when that
\* one compares less.
RECURSIVE MinFrom(_, _, _)
MinFrom(cur, xs, i) ==
    IF i > Len(xs) THEN cur
    ELSE MinFrom(IF FLt(xs[i], cur) THEN xs[i] ELSE cur, xs, i + 1)

FMin(xs) == MinFrom(xs[1], xs, 2)

RECURSIVE MaxFrom(_, _, _)
MaxFrom(cur, xs, i) ==
    IF i > Len(xs) THEN cur
    ELSE MaxFrom(IF FLt(cur, xs[i]) THEN xs[i] ELSE cur, xs, i + 1)

FMax(xs) == MaxFrom(xs[1], xs, 2)

\* round(x, 4) on a float: the nearest multiple of 1e-4 (ten units), then
\* the float nearest to it.
Round4(x) ==
    IF x.nan THEN NaN
    ELSE LET a == IF x.v < 0 THEN -x.v ELSE x.v
             m == RoundRat(10 * RoundHalfEven(a, 10), 1)
         IN  F(IF x.v < 0 THEN -m ELSE m)

\* The strings float() accepts, with the value each denotes.
FloatLiterals == {"0.00004", "0.00006", " 0.00006 ", "6e-05", "-0.00001", "nan"}

FloatValue(s) ==
    CASE s = "0.00004"   -> F(4)
      [] s = "0.00006"   -> F(6)
      [] s = " 0.00006 " -> F(6)
      [] s = "6e-05"     -> F(6)
      [] s = "-0.00001"  -> F(-1)
      [] s = "nan"       -> NaN

\* float(cell): a float, or the exception it raises.  None raises
\* TypeError; a string that is no float literal raises ValueError, whose
\* message quotes the string.
PyFloat(cell) ==
    IF cell = None THEN [kind |-> "TypeError"]
    ELSE IF cell[1] \in FloatLiterals
         THEN [kind |-> "float", value |-> FloatValue(cell[1])]
         ELSE [kind |-> "ValueError", raw |-> cell[1]]

\* ------------------------------------------------------------ the inputs

Prog == "process_results.py"

\* A file name is a sequence of pieces; ".xlsx" is one piece.
InputName == <<"in", ".csv">>

\* The command lines tried: 0, 1, 2 (with and without the extension) and 3
\* positional arguments.
ArgvChoices ==
    { <<Prog>>,
      <<Prog, InputName>>,
      <<Prog, InputName, <<"out">> >>,
      <<Prog, InputName, <<"out", ".xlsx">> >>,
      <<Prog, InputName, <<"out", ".xlsx">>, <<"extra">> >> }

RequiredColumns ==
    <<"timestamp", "avg_response_time", "p95_response_time", "requests_per_second">>

NumericColumns == {"avg_response_time", "p95_response_time", "requests_per_second"}

\* s without its i-th element.
Without(s, i) == SubSeq(s, 1, i - 1) \o SubSeq(s, i + 1, Len(s))

\* The header rows tried: the four columns in the documented order, in
\* reverse order, followed by a fifth column, and with one column missing.
\* <<>> is the empty file, which has no header row.
Headers ==
    { RequiredColumns,
      <<"requests_per_second", "p95_response_time", "avg_response_time", "timestamp">>,
      Append(RequiredColumns, "note"),
      <<>> }
    \cup {Without(RequiredColumns, i) : i \in 1..4}

TsCells == {"t1", "t2"}

AvgCells == {"0.00006", "-0.00001", "nan", "abc"}

P95Cells == {" 0.00006 ", ""}

RpsCells == {"6e-05", "x"}

CellFor(col, ts, a, p, r) ==
    CASE col = "timestamp"           -> ts
      [] col = "avg_response_time"   -> a
      [] col = "p95_response_time"   -> p
      [] col = "requests_per_second" -> r
      [] OTHER                       -> "n/a"

\* The lines a file with header h may hold: one cell per column of h, or
\* fewer (a short line); no cell at all is a blank line.
FileLines(h) ==
    { [i \in 1..L |-> CellFor(h[i], ts, a, p, r)] :
        L \in 0..Len(h), ts \in TsCells, a \in AvgCells, p \in P95Cells, r \in RpsCells }

\* What opening the input path can do, and what saving the workbook can do.
\* OSError stands for the OSErrors that are neither of the two named ones
\* (IsADirectoryError, a missing directory, a full disk).
OpenOutcomes == {"ok", "FileNotFoundError", "PermissionError"}

SaveOutcomes == {"ok", "PermissionError", "OSError"}

\* ------------------------------------------------------------ the Reader

\* The position of column c in header h (c is in h).
IndexOf(h, c) == CHOOSE i \in 1..Len(h) : h[i] = c

\* csv.DictReader's row: each fieldname mapped to its cell, to None
\* (restval) where the line is short.
DictRow(h, fields) ==
    [c \in Range(h) |->
        IF IndexOf(h, c) <= Len(fields) THEN Some(fields[IndexOf(h, c)]) ELSE None]

\* float(row[col]): KeyError when the header has no such column.
FloatField(row, col) ==
    IF col \in DOMAIN row THEN PyFloat(row[col])
    ELSE [kind |-> "KeyError", key |-> col]

\* The dict literal of the loop body, its items evaluated in order: the
\* sample, or the first exception raised.
ConvertRow(row) ==
    IF "timestamp" \notin DOMAIN row THEN [kind |-> "KeyError", key |-> "timestamp"]
    ELSE LET a == FloatField(row, "avg_response_time")
             p == FloatField(row, "p95_response_time")
             r == FloatField(row, "requests_per_second")
         IN  IF a.kind # "float" THEN a
             ELSE IF p.kind # "float" THEN p
             ELSE IF r.kind # "float" THEN r
             ELSE [kind |-> "sample",
                   sample |-> [timestamp |-> row["timestamp"],
                               avg_response_time |-> a.value,
                               p95_response_time |-> p.value,
                               requests_per_second |-> r.value]]

\* ----------------------------------------------------------- the messages

MsgUsage == <<"Usage: python process_results.py input.csv output.xlsx">>

MsgExpectedFormat ==
    <<"Expected CSV format:", RequiredColumns>>

MsgReading(f) == <<"Reading data from:", f>>

MsgNotFound(f) == <<"Error: File not found.", f>>

MsgMissingColumn(c) == <<"Error: Missing expected column in CSV file.", c>>

MsgExpectedColumns == <<"Expected columns:", RequiredColumns>>

MsgInvalidNumeric(raw) ==
    <<"Error: Invalid numeric value in CSV file: could not convert string to float:", raw>>

MsgNoData == <<"Error: No data found in CSV file.">>

MsgProcessing(n) == <<"Processing samples...", n>>

MsgGenerating(f) == <<"Generating Excel file:", f>>

MsgCreated(f) == <<"Successfully created Excel file:", f>>

MsgDataSheet(n) == <<"  - Data sheet with samples", n>>

MsgStatsSheet == <<"  - Statistics sheet with summary metrics">>

MsgChartsSheet == <<"  - Charts sheet with visualizations">>

MsgCannotWrite(f) ==
    <<"Error: Cannot write. File may be open in another program.", f>>

MsgSummary(avg, p95, rps) == <<"Summary Statistics:", avg, p95, rps>>

\* The interpreter's report of an exception no handler caught.
MsgTraceback(exc) == <<"Traceback (most recent call last):", exc>>

\* -------------------------------------------------------- the Aggregator

Column(d, field) == [i \in 1..Len(d) |-> d[i][field]]

\* calculate_statistics(data); the empty dict {} is the empty function <<>>.
calculate_statistics(d) ==
    IF d = <<>> THEN <<>>
    ELSE LET avg_times  == Column(d, "avg_response_time")
             p95_times  == Column(d, "p95_response_time")
             rps_values == Column(d, "requests_per_second")
         IN  [total_samples          |-> Len(d),
              avg_response_time_mean |-> FDiv(FSum(avg_times), Len(avg_times)),
              avg_response_time_min  |-> FMin(avg_times),
              avg_response_time_max  |-> FMax(avg_times),
              p95_response_time_mean |-> FDiv(FSum(p95_times), Len(p95_times)),
              p95_response_time_min  |-> FMin(p95_times),
              p95_response_time_max  |-> FMax(p95_times),
              rps_mean               |-> FDiv(FSum(rps_values), Len(rps_values)),
              rps_min                |-> FMin(rps_values),
              rps_max                |-> FMax(rps_values)]

\* ---------------------------------------------------------- the Reporter

DataHeaders ==
    <<"Timestamp", "Avg Response Time (s)", "P95 Response Time (s)", "Requests/Second">>

\* DataRow with the Statistics sheet's round(value, 4) applied to the numbers.
DataRowRounded(row_data) ==
    <<row_data.timestamp, Round4(row_data.avg_response_time),
      Round4(row_data.p95_response_time), Round4(row_data.requests_per_second)>>

\* The cells of one data row of the Data sheet, columns 1 to 4.
DataRow(row_data) ==
    <<row_data.timestamp, row_data.avg_response_time,
      row_data.p95_response_time, row_data.requests_per_second>>

\* The Data sheet by row: row 1 the headers, row i + 1 the i-th sample.
DataSheet(d) ==
    [row_idx \in 1..(Len(d) + 1) |->
        IF row_idx = 1 THEN DataHeaders ELSE DataRow(d[row_idx - 1])]

\* A value of stats_rows with its Python type.
PyInt(n) == [type |-> "int", value |-> n]

PyFloatValue(x) == [type |-> "float", value |-> x]

PyStr(s) == [type |-> "str", value |-> s]

stats_rows(st) ==
    << <<"Total Samples", PyInt(st.total_samples)>>,
       <<"", PyStr("")>>,
       <<"Average Response Time (s)", PyStr("")>>,
       <<"  Mean", PyFloatValue(st.avg_response_time_mean)>>,
       <<"  Min", PyFloatValue(st.avg_response_time_min)>>,
       <<"  Max", PyFloatValue(st.avg_response_time_max)>>,
       <<"", PyStr("")>>,
       <<"P95 Response Time (s)", PyStr("")>>,
       <<"  Mean", PyFloatValue(st.p95_response_time_mean)>>,
       <<"  Min", PyFloatValue(st.p95_response_time_min)>>,
       <<"  Max", PyFloatValue(st.p95_response_time_max)>>,
       <<"", PyStr("")>>,
       <<"Requests per Second", PyStr("")>>,
       <<"  Mean", PyFloatValue(st.rps_mean)>>,
       <<"  Min", PyFloatValue(st.rps_min)>>,
       <<"  Max", PyFloatValue(st.rps_max)>> >>

\* The value written to column 2 of a Statistics row: round(value, 4) for an
\* int or a float (an int is its own rounding), the value itself otherwise.
StatsCell(value) ==
    IF value.type = "float" THEN PyFloatValue(Round4(value.value))
    ELSE IF value.type = "int" THEN value
    ELSE value

StatsSheet(st) ==
    [row_idx \in 1..(Len(stats_rows(st)) + 1) |->
        IF row_idx = 1 THEN <<"Metric", PyStr("Value")>>
        ELSE <<stats_rows(st)[row_idx - 1][1], StatsCell(stats_rows(st)[row_idx - 1][2])>>]

\* openpyxl's Reference into the Data sheet.
Reference(min_col, min_row, max_row) ==
    [min_col |-> min_col, min_row |-> min_row, max_row |-> max_row]

ChartsSheet(d) ==
    << [title  |-> "Response Times Over Time", anchor |-> "A1",
        series |-> <<Reference(2, 1, Len(d) + 1), Reference(3, 1, Len(d) + 1)>>,
        cats   |-> Reference(1, 2, Len(d) + 1)],
       [title  |-> "Requests per Second Over Time", anchor |-> "A25",
        series |-> <<Reference(4, 1, Len(d) + 1)>>,
        cats   |-> Reference(1, 2, Len(d) + 1)] >>

Workbook(d, st) ==
    [Data |-> DataSheet(d), Statistics |-> StatsSheet(st), Charts |-> ChartsSheet(d)]

\* f"{x:.4f}" and f"{x:.2f}": the number of 1e-4 (1e-2) steps printed.
Format4f(x) ==
    IF x.nan THEN NaN
    ELSE F(IF x.v < 0 THEN -RoundHalfEven(-x.v, 10) ELSE RoundHalfEven(x.v, 10))

Format2f(x) ==
    IF x.nan THEN NaN
    ELSE F(IF x.v < 0 THEN -RoundHalfEven(-x.v, 1000) ELSE RoundHalfEven(x.v, 1000))

\* ----------------------------------------------------------------- main

\* output_file.endswith('.xlsx') or output_file += '.xlsx'
Normalize(name) ==
    IF Len(name) > 0 /\ name[Len(name)] = ".xlsx" THEN name ELSE Append(name, ".xlsx")

Init ==
    /\ pc = "main"
    /\ argv \in ArgvChoices
    /\ output_file = None
    /\ open_result = "none"
    /\ header = <<>>
    /\ csv_rows = <<>>
    /\ data = <<>>
    /\ stats = None
    /\ wb = None
    /\ disk = None
    /\ saves = 0
    /\ out = <<>>
    /\ exit_code = None

\* sys.exit(code) after printing msgs; an uncaught exception ends the
\* process the same way, its traceback printed, with status 1.
Exit(msgs, code) ==
    /\ out' = out \o msgs
    /\ exit_code' = Some(code)
    /\ pc' = "exit"

\* CheckArgs testing len(sys.argv) < 3 instead of != 3.
CheckArgsAtLeast ==
    /\ pc = "main"
    /\ IF Len(argv) < 3
       THEN /\ Exit(<<MsgUsage, MsgExpectedFormat>>, 1)
            /\ UNCHANGED output_file
       ELSE /\ output_file' = Some(Normalize(argv[3]))
            /\ out' = Append(out, MsgReading(argv[2]))
            /\ pc' = "open"
            /\ UNCHANGED exit_code
    /\ UNCHANGED <<argv, open_result, header, csv_rows, data, stats, wb, disk, saves>>

\* main, the argument check and the output name.
CheckArgs ==
    /\ pc = "main"
    /\ IF Len(argv) # 3
       THEN /\ Exit(<<MsgUsage, MsgExpectedFormat>>, 1)
            /\ UNCHANGED output_file
       ELSE /\ output_file' = Some(Normalize(argv[3]))
            /\ out' = Append(out, MsgReading(argv[2]))
            /\ pc' = "open"
            /\ UNCHANGED exit_code
    /\ UNCHANGED <<argv, open_result, header, csv_rows, data, stats, wb, disk, saves>>

\* read_csv_data: open(csv_file, 'r') and the DictReader's header.
OpenInput ==
    /\ pc = "open"
    /\ \E o \in OpenOutcomes :
         /\ open_result' = o
         /\ CASE o = "ok" ->
                   /\ \E h \in Headers : header' = h
                   /\ pc' = "read"
                   /\ UNCHANGED <<out, exit_code>>
              [] o = "FileNotFoundError" ->
                   /\ Exit(<<MsgNotFound(argv[2])>>, 1)
                   /\ UNCHANGED header
              [] o = "PermissionError" ->
                   /\ Exit(<<MsgTraceback("PermissionError")>>, 1)
                   /\ UNCHANGED header
    /\ UNCHANGED <<argv, output_file, csv_rows, data, stats, wb, disk, saves>>

\* AppendSample that drops a sample already in the list.
AppendSampleDedup(d, sample) ==
    IF sample \in Range(d) THEN d ELSE Append(d, sample)

\* data.append(sample)
AppendSample(d, sample) == Append(d, sample)

\* ReadFailure without its sys.exit(1): the message is printed and the loop
\* goes on.
ReadFailureSwallowed(msgs) ==
    /\ out' = out \o msgs
    /\ UNCHANGED <<pc, exit_code, data>>

\* The except clauses of read_csv_data: the message, then sys.exit(1).
ReadFailure(msgs) ==
    /\ Exit(msgs, 1)
    /\ UNCHANGED data

\* read_csv_data: one turn of "for row in reader", with the handlers of the
\* exceptions its body raises.  A blank line is skipped by the DictReader.
ReadRow ==
    /\ pc = "read"
    /\ header # <<>>
    /\ Len(csv_rows) < MaxRows
    /\ \E line \in FileLines(header) :
         /\ csv_rows' = Append(csv_rows, line)
         /\ IF line = <<>>
            THEN UNCHANGED <<pc, data, out, exit_code>>
            ELSE LET res == ConvertRow(DictRow(header, line))
                 IN  CASE res.kind = "sample" ->
                            /\ data' = AppendSample(data, res.sample)
                            /\ UNCHANGED <<pc, out, exit_code>>
                       [] res.kind = "KeyError" ->
                            ReadFailure(<<MsgMissingColumn(res.key), MsgExpectedColumns>>)
                       [] res.kind = "ValueError" ->
                            ReadFailure(<<MsgInvalidNumeric(res.raw)>>)
                       [] res.kind = "TypeError" ->
                            /\ Exit(<<MsgTraceback("TypeError")>>, 1)
                            /\ UNCHANGED data
    /\ UNCHANGED <<argv, output_file, open_result, header, stats, wb, disk, saves>>

\* read_csv_data: the reader is exhausted, data is returned.
EndOfFile ==
    /\ pc = "read"
    /\ pc' = "check_data"
    /\ UNCHANGED <<argv, output_file, open_result, header, csv_rows, data, stats, wb,
                   disk, saves, out, exit_code>>

\* CheckEmpty without its sys.exit(1): the message is printed and main goes on.
CheckEmptyNoExit ==
    /\ pc = "check_data"
    /\ out' = Append(out, IF data = <<>> THEN MsgNoData ELSE MsgProcessing(Len(data)))
    /\ pc' = "calculate_statistics"
    /\ UNCHANGED <<argv, output_file, open_result, header, csv_rows, data, stats, wb,
                   disk, saves, exit_code>>

\* main: if not data.
CheckEmpty ==
    /\ pc = "check_data"
    /\ IF data = <<>>
       THEN Exit(<<MsgNoData>>, 1)
       ELSE /\ out' = Append(out, MsgProcessing(Len(data)))
            /\ pc' = "calculate_statistics"
            /\ UNCHANGED exit_code
    /\ UNCHANGED <<argv, output_file, open_result, header, csv_rows, data, stats, wb,
                   disk, saves>>

\* main: stats = calculate_statistics(data).
CalculateStatistics ==
    /\ pc = "calculate_statistics"
    /\ stats' = Some(calculate_statistics(data))
    /\ out' = Append(out, MsgGenerating(output_file[1]))
    /\ pc' = "create_excel"
    /\ UNCHANGED <<argv, output_file, open_result, header, csv_rows, data, wb, disk,
                   saves, exit_code>>

\* create_excel_with_charts up to the save: the three sheets are built in
\* memory.  stats['total_samples'] raises KeyError on the empty dict.
BuildWorkbook ==
    /\ pc = "create_excel"
    /\ IF stats[1] = <<>>
       THEN /\ Exit(<<MsgTraceback("KeyError")>>, 1)
            /\ UNCHANGED wb
       ELSE /\ wb' = Some(Workbook(data, stats[1]))
            /\ pc' = "save"
            /\ UNCHANGED <<out, exit_code>>
    /\ UNCHANGED <<argv, output_file, open_result, header, csv_rows, data, stats, disk,
                   saves>>

\* create_excel_with_charts: wb.save(output_file) and its handler.
SaveWorkbook ==
    /\ pc = "save"
    /\ saves' = saves + 1
    /\ \E o \in SaveOutcomes :
         CASE o = "ok" ->
                /\ disk' = Some([path |-> output_file[1], content |-> wb[1]])
                /\ out' = out \o <<MsgCreated(output_file[1]), MsgDataSheet(Len(data)),
                                   MsgStatsSheet, MsgChartsSheet>>
                /\ pc' = "summary"
                /\ UNCHANGED exit_code
           [] o = "PermissionError" ->
                /\ Exit(<<MsgCannotWrite(output_file[1])>>, 1)
                /\ UNCHANGED disk
           [] o = "OSError" ->
                /\ Exit(<<MsgTraceback("OSError")>>, 1)
                /\ UNCHANGED disk
    /\ UNCHANGED <<argv, output_file, open_result, header, csv_rows, data, stats, wb>>

\* main: the summary; the interpreter then exits with status 0.
PrintSummary ==
    /\ pc = "summary"
    /\ Exit(<<MsgSummary(Format4f(stats[1].avg_response_time_mean),
                         Format4f(stats[1].p95_response_time_mean),
                         Format2f(stats[1].rps_mean))>>, 0)
    /\ UNCHANGED <<argv, output_file, open_result, header, csv_rows, data, stats, wb,
                   disk, saves>>

Next ==
    \/ CheckArgs
    \/ OpenInput
    \/ ReadRow
    \/ EndOfFile
    \/ CheckEmpty
    \/ CalculateStatistics
    \/ BuildWorkbook
    \/ SaveWorkbook
    \/ PrintSummary

Spec == Init /\ [][Next]_vars

\* ------------------------------------------------------------ the claims

\* x <= y and x == y on floats, both False whenever a NaN is involved.
FLe(x, y) == ~x.nan /\ ~y.nan /\ x.v <= y.v

FEq(x, y) == ~x.nan /\ ~y.nan /\ x.v = y.v

Printed(m) == \E i \in 1..Len(out) : out[i] = m

\* The lines of the file that are data rows: the blank ones are none.
DataLines == SelectSeq(csv_rows, LAMBDA line : line # <<>>)

\* read_csv_data has returned its list to main.
ReaderReturned ==
    \/ pc \in {"check_data", "calculate_statistics", "create_excel", "save", "summary"}
    \/ pc = "exit" /\ (Printed(MsgNoData) \/ stats # None)

\* A message of a stage before the Reporter's save that ends the run.
EarlyFailureMessages ==
    {MsgUsage, MsgNotFound(InputName), MsgNoData, MsgExpectedColumns,
     MsgTraceback("PermissionError"), MsgTraceback("TypeError"),
     MsgTraceback("KeyError")}
    \cup {MsgInvalidNumeric(raw) : raw \in AvgCells \cup P95Cells \cup RpsCells \cup TsCells}

EarlyFailure == \E i \in 1..Len(out) : out[i] \in EarlyFailureMessages

\* C1: wb.save is called at most once, and only once the Reader has returned
\* a non-empty Dataset and the Aggregator its Statistics; a run in which
\* argument checking, reading, parsing or the empty-dataset check failed
\* never calls it and leaves the destination path unwritten.
C1_WriteOnceAfterAllStages ==
    /\ saves <= 1
    /\ (saves > 0 \/ disk # None) =>
          /\ data # <<>>
          /\ stats # None
          /\ stats[1] # <<>>
          /\ wb # None
          /\ pc \in {"summary", "exit"}
    /\ EarlyFailure =>
          /\ pc = "exit"
          /\ exit_code = Some(1)
          /\ saves = 0
          /\ disk = None
    /\ disk # None => disk[1].content = wb[1] /\ disk[1].path = output_file[1]

C1_Witness ==
    /\ pc = "exit"
    /\ exit_code = Some(0)
    /\ saves = 1
    /\ disk # None

\* C5: a file with a header row and no data row ends in EmptyDataset: main
\* prints the no-data error and exits with status 1 once the Reader has
\* returned, and neither calculate_statistics nor create_excel_with_charts
\* has run.
C5_HeaderOnlyIsEmptyDataset ==
    (ReaderReturned /\ header # <<>> /\ DataLines = <<>>) =>
        /\ pc \in {"check_data", "exit"}
        /\ stats = None
        /\ wb = None
        /\ saves = 0
        /\ disk = None
        /\ pc = "exit" => exit_code = Some(1) /\ out[Len(out)] = MsgNoData

C5_Witness ==
    /\ pc = "exit"
    /\ header = RequiredColumns
    /\ csv_rows = <<>>
    /\ exit_code = Some(1)
    /\ Printed(MsgNoData)

\* C6: with a number of positional arguments other than two the run prints
\* the usage text with the expected column list and exits with status 1; the
\* input file is never opened and the output path never written.
C6_WrongArgCountIsUsageError ==
    Len(argv) # 3 =>
        /\ pc \in {"main", "exit"}
        /\ open_result = "none"
        /\ saves = 0
        /\ disk = None
        /\ pc = "exit" => out = <<MsgUsage, MsgExpectedFormat>> /\ exit_code = Some(1)

C6_Witness ==
    /\ pc = "exit"
    /\ Len(argv) = 4
    /\ exit_code = Some(1)
    /\ Printed(MsgUsage)

\* The messages the program prints for the fatal errors of the taxonomy, by
\* their last line.
FatalMessages ==
    {MsgExpectedFormat, MsgNotFound(InputName), MsgExpectedColumns, MsgNoData}
    \cup {MsgInvalidNumeric(raw) : raw \in AvgCells \cup P95Cells \cup RpsCells \cup TsCells}
    \cup {MsgCannotWrite(Normalize(<<"out">>))}

\* C2: a run ends either in a fatal error, its message printed last, with
\* status 1 and no report persisted, or with the report persisted, the
\* summary printed and status 0.
C2_EveryFatalErrorReported ==
    pc = "exit" =>
        \/ /\ exit_code = Some(1)
           /\ out[Len(out)] \in FatalMessages
           /\ disk = None
        \/ /\ exit_code = Some(0)
           /\ disk # None
           /\ out[Len(out)][1] = "Summary Statistics:"

\* The header rows that lack exactly one required column.
LacksOne(h) == \E i \in 1..4 : h = Without(RequiredColumns, i)

MissingColumnOf(h) == CHOOSE c \in Range(RequiredColumns) : c \notin Range(h)

\* Every line read has a cell for each column of the header, or is blank.
AllLinesComplete ==
    \A i \in 1..Len(csv_rows) : Len(csv_rows[i]) \in {0, Len(header)}

\* C3: a run on a file whose header lacks exactly one required column ends
\* in the MissingColumn error naming that column, followed by the expected
\* column list, with status 1, whatever the data rows are (here: lines
\* with a cell for every column of the header, or no line at all).
C3_MissingColumnAlwaysNamed ==
    (pc = "exit" /\ open_result = "ok" /\ LacksOne(header) /\ AllLinesComplete) =>
        /\ exit_code = Some(1)
        /\ Printed(MsgMissingColumn(MissingColumnOf(header)))
        /\ out[Len(out)] = MsgExpectedColumns

\* The cells of the lines read that stand in a numeric column and are no
\* float literal.
NonNumericValues ==
    {cell \in AvgCells \cup P95Cells \cup RpsCells \cup TsCells :
        \E i \in 1..Len(DataLines) : \E c \in NumericColumns :
            /\ c \in Range(header)
            /\ DictRow(header, DataLines[i])[c] = Some(cell)
            /\ cell \notin FloatLiterals}

HasAllColumns(h) == \A c \in Range(RequiredColumns) : c \in Range(h)

\* C4: when the header has the four columns and a line read holds a
\* non-numeric value in a numeric column, the Reader ends in
\* InvalidNumericValue quoting such a value and returns no Dataset.
C4_InvalidNumericAlwaysReported ==
    (pc # "read" /\ HasAllColumns(header) /\ NonNumericValues # {}) =>
        /\ pc = "exit"
        /\ exit_code = Some(1)
        /\ \E raw \in NonNumericValues : out[Len(out)] = MsgInvalidNumeric(raw)
        /\ stats = None

\* C7: the Dataset the Reader returns has one sample per data line of the
\* file, the i-th sample holding the i-th line's timestamp and the floats
\* its three numeric cells denote; total_samples is the number of data lines.
C7_DatasetIsFileInOrder ==
    ReaderReturned =>
        /\ Len(data) = Len(DataLines)
        /\ \A i \in 1..Len(data) :
              LET row == DictRow(header, DataLines[i])
              IN  /\ data[i].timestamp = row["timestamp"]
                  /\ \A c \in NumericColumns :
                        /\ row[c] # None
                        /\ row[c][1] \in FloatLiterals
                        /\ data[i][c] = FloatValue(row[c][1])
        /\ (stats # None /\ data # <<>>) => stats[1].total_samples = Len(DataLines)

\* Two equal data lines and a blank one, read to the end of a successful run.
C7_Witness ==
    /\ pc = "exit"
    /\ exit_code = Some(0)
    /\ Len(csv_rows) = 3
    /\ Len(data) = 2
    /\ data[1] = data[2]
    /\ stats[1].total_samples = 2

AllNonNegative ==
    \A i \in 1..Len(data) : \A c \in NumericColumns : FLe(F(0), data[i][c])

\* C8: for a non-empty Dataset of non-negative samples, each series has
\* min <= mean <= max, and min = mean = max when there is one sample.
C8_MeanBetweenMinAndMax ==
    (stats # None /\ data # <<>> /\ AllNonNegative) =>
        LET st == stats[1]
        IN  /\ FLe(st.avg_response_time_min, st.avg_response_time_mean)
            /\ FLe(st.avg_response_time_mean, st.avg_response_time_max)
            /\ FLe(st.p95_response_time_min, st.p95_response_time_mean)
            /\ FLe(st.p95_response_time_mean, st.p95_response_time_max)
            /\ FLe(st.rps_min, st.rps_mean)
            /\ FLe(st.rps_mean, st.rps_max)
            /\ Len(data) = 1 =>
                  /\ FEq(st.avg_response_time_min, st.avg_response_time_mean)
                  /\ FEq(st.avg_response_time_mean, st.avg_response_time_max)
                  /\ FEq(st.p95_response_time_min, st.p95_response_time_mean)
                  /\ FEq(st.p95_response_time_mean, st.p95_response_time_max)
                  /\ FEq(st.rps_min, st.rps_mean)
                  /\ FEq(st.rps_mean, st.rps_max)

\* C9: no sample of the Dataset the Reader returns has a negative numeric
\* field.
C9_SamplesNonNegative ==
    ReaderReturned =>
        \A i \in 1..Len(data) : \A c \in NumericColumns : ~FLt(data[i][c], F(0))

\* The Data sheet of a workbook holds the headers and then the samples,
\* unrounded; its Statistics sheet holds the rounded statistics.
SheetsMatch(book) ==
    /\ Len(book.Data) = Len(data) + 1
    /\ book.Data[1] = DataHeaders
    /\ \A i \in 1..Len(data) :
          book.Data[i + 1] = <<data[i].timestamp, data[i].avg_response_time,
                               data[i].p95_response_time, data[i].requests_per_second>>
    /\ book.Statistics[2] = <<"Total Samples", PyInt(Len(data))>>
    /\ book.Statistics[5] = <<"  Mean", PyFloatValue(Round4(stats[1].avg_response_time_mean))>>
    /\ book.Statistics[6] = <<"  Min", PyFloatValue(Round4(stats[1].avg_response_time_min))>>
    /\ book.Statistics[7] = <<"  Max", PyFloatValue(Round4(stats[1].avg_response_time_max))>>

\* C10: the workbook built, and the one persisted, has a Data sheet of a
\* header row and one row per sample, row i + 1 holding sample i's four
\* fields in column order, unrounded; the 4-decimal rounding is on the
\* Statistics sheet only.
C10_DataSheetRoundTrip ==
    /\ wb # None => SheetsMatch(wb[1])
    /\ disk # None => SheetsMatch(disk[1].content)

\* A persisted report with a sample that round(value, 4) would change.
C10_Witness ==
    /\ disk # None
    /\ \E i \in 1..Len(data) :
          /\ ~data[i].avg_response_time.nan
          /\ Round4(data[i].avg_response_time) # data[i].avg_response_time
          /\ disk[1].content.Data[i + 1][2] = data[i].avg_response_time

====
